---- MODULE Spec2Model ----
(***************************************************************************)
(* A model of go.py, the snapsort listing/product matcher.                 *)
(*                                                                         *)
(* A Python string is a sequence of one-character strings.  Python indexes *)
(* from 0 and TLA+ from 1: At(s, k) is s[k].  A raised IndexError is the   *)
(* return value IndexError; "not found" is NotFound, as in the source.     *)
(***************************************************************************)
EXTENDS Integers, Sequences, FiniteSets, TLC

(***************************************************************************)
(* Bounds of the model.                                                    *)
(***************************************************************************)
MaxHayLen == 5
MaxNeedleLen == 2
MaxCacheHayLen == 2
MaxCacheNeedleLen == 1
MaxWords == 3
MaxProducts == 2
MaxNameLen == 2
MaxCandidates == 3
MaxProcesses == 3
MaxListings == 3

VARIABLES
  settings,        \* fuzzy_match's persistent default argument [None, {}, None]
  pc,              \* position of the calling (main) process
  haystack,        \* fuzzy_match's argument
  needle,          \* fuzzy_match's argument
  ret,             \* what the last fuzzy_match call returned
  listing,         \* match_product's argument
  products,        \* the catalog load_products returns
  product_names,   \* what match_product returned
  num_processes,   \* int(sys.argv[1])
  listings,        \* the records of listings.txt, in file order
  worker,          \* the memory of each match_listings process
  q,               \* the multiprocessing.Queue
  results,         \* the mappings the main process got from q
  merged,          \* how many of results the merge loop has merged
  merged_results   \* the merged mapping

vars == <<settings, pc, haystack, needle, ret, listing, products, product_names,
          num_processes, listings, worker, q, results, merged, merged_results>>

(***************************************************************************)
(* Characters.                                                             *)
(***************************************************************************)
UPPER == <<"A","B","C","D","E","F","G","H","I","J","K","L","M",
           "N","O","P","Q","R","S","T","U","V","W","X","Y","Z">>
LOWER == <<"a","b","c","d","e","f","g","h","i","j","k","l","m",
           "n","o","p","q","r","s","t","u","v","w","x","y","z">>
DIGITS == <<"0","1","2","3","4","5","6","7","8","9">>

Range(s) == {s[i] : i \in DOMAIN s}

\* unicode.lower() of one character
lower(c) == IF \E i \in DOMAIN UPPER : UPPER[i] = c
            THEN LOWER[CHOOSE i \in DOMAIN UPPER : UPPER[i] = c]
            ELSE IF c = "Ü" THEN "ü" ELSE c

isalpha(c) == c \in Range(UPPER) \cup Range(LOWER) \cup {"ü", "Ü"}

isdigit(c) == c \in Range(DIGITS)

BOUNDARIES == {" ", "-", "(", ")"}

NUKE_TABLE == {" ", "-", "(", ")"}

NotFound == -1

IndexError == -2

None == <<"None">>

(***************************************************************************)
(* Python string operations.                                               *)
(***************************************************************************)
\* s[k], k >= 0 in range
At(s, k) == s[k + 1]

\* s[k] with Python's negative indices (s[-1] is the last character)
PyIndex(s, k) == IF k < 0 THEN s[Len(s) + k + 1] ELSE s[k + 1]

\* s.lower()
Lowered(s) == [i \in DOMAIN s |-> lower(s[i])]

\* s.translate(NUKE_TABLE): the characters of the table are deleted
RECURSIVE translate(_)
translate(s) ==
  IF s = <<>> THEN <<>>
  ELSE IF Head(s) \in NUKE_TABLE THEN translate(Tail(s))
       ELSE <<Head(s)>> \o translate(Tail(s))

\* x.translate(NUKE_TABLE).lower()
normalize(s) == Lowered(translate(s))

\* sub occurs in s at 0-based offset k
OccursAt(s, sub, k) ==
  /\ k + Len(sub) <= Len(s)
  /\ \A i \in 1..Len(sub) : s[k + i] = sub[i]

\* s.find(sub): the least offset of an occurrence, or -1
find(s, sub) ==
  IF \E k \in 0..Len(s) : OccursAt(s, sub, k)
  THEN CHOOSE k \in 0..Len(s) :
         /\ OccursAt(s, sub, k)
         /\ \A j \in 0..(k - 1) : ~OccursAt(s, sub, j)
  ELSE -1

(***************************************************************************)
(* fuzzy_match                                                             *)
(***************************************************************************)
\* the inner while loop: <<xprime, needle_match>> when it ends
RECURSIVE Consume(_, _, _, _)
Consume(h, n, xprime, needle_match) ==
  IF needle_match < Len(n) /\ xprime < Len(h)
  THEN IF At(h, xprime) \in BOUNDARIES
       THEN Consume(h, n, xprime + 1, needle_match)
       ELSE IF lower(At(h, xprime)) = At(n, needle_match)
            THEN Consume(h, n, xprime + 1, needle_match + 1)
            ELSE <<xprime, needle_match>>
  ELSE <<xprime, needle_match>>

\* Accepts with isalpha for isdigit on the matched side of the digit test
AcceptsTypo(h, xprime) ==
  \/ xprime = Len(h)
  \/ At(h, xprime) \in BOUNDARIES
  \/ isalpha(At(h, xprime)) # isalpha(PyIndex(h, xprime - 1))
  \/ isdigit(At(h, xprime)) # isalpha(PyIndex(h, xprime - 1))

\* the condition of the if that guards `return x`
Accepts(h, xprime) ==
  \/ xprime = Len(h)
  \/ At(h, xprime) \in BOUNDARIES
  \/ isalpha(At(h, xprime)) # isalpha(PyIndex(h, xprime - 1))
  \/ isdigit(At(h, xprime)) # isdigit(PyIndex(h, xprime - 1))

\* Scan with the range's upper bound one short: len(haystack)-len(needle)
RECURSIVE ScanShort(_, _, _, _)
ScanShort(h, n, x, can_match) ==
  IF x >= Len(h) - Len(n) THEN NotFound
  ELSE IF x >= Len(h) THEN IndexError
  ELSE IF At(h, x) \in BOUNDARIES THEN ScanShort(h, n, x + 1, TRUE)
  ELSE IF ~can_match THEN ScanShort(h, n, x + 1, FALSE)
  ELSE LET c == Consume(h, n, x, 0)
       IN  IF c[2] = Len(n) /\ Accepts(h, c[1])
           THEN x
           ELSE ScanShort(h, n, x + 1, FALSE)

\* the for loop over x from offset x on, with the can_match flag: the value
\* returned, NotFound when the loop runs out, IndexError when haystack[x] raises
RECURSIVE Scan(_, _, _, _)
Scan(h, n, x, can_match) ==
  IF x >= Len(h) - Len(n) + 1 THEN NotFound
  ELSE IF x >= Len(h) THEN IndexError
  ELSE IF At(h, x) \in BOUNDARIES THEN Scan(h, n, x + 1, TRUE)
  ELSE IF ~can_match THEN Scan(h, n, x + 1, FALSE)
  ELSE LET c == Consume(h, n, x, 0)
       IN  IF c[2] = Len(n) /\ Accepts(h, c[1])
           THEN x
           ELSE Scan(h, n, x + 1, FALSE)

EmptyMemo == [k \in {} |-> NotFound]

MemoPut(memo, n, v) == [k \in DOMAIN memo \cup {n} |-> IF k = n THEN v ELSE memo[k]]

\* settings = [None, {}, None]
FreshSettings == [s0 |-> None, s1 |-> EmptyMemo, s2 |-> None]

\* Rehay without `settings[1] = {}`
RehayKeepMemo(s, h) ==
  IF h # s.s0
  THEN [s0 |-> h, s1 |-> s.s1, s2 |-> normalize(h)]
  ELSE s

\* lines 60-63: a new haystack resets the memo and the stripped haystack
Rehay(s, h) ==
  IF h # s.s0
  THEN [s0 |-> h, s1 |-> EmptyMemo, s2 |-> normalize(h)]
  ELSE s

\* fuzzy_match(haystack, needle) run on the cache s: the value returned
\* (IndexError when haystack[x] raises), the cache the call leaves, and the
\* place the call left from ("memo": line 66, "quick": line 72, "scan": lines
\* 102 and 105, "raise": line 77)
FuzzyMatch(h, n, s) ==
  LET s1 == Rehay(s, h)
  IN  IF n \in DOMAIN s1.s1
      THEN [ret |-> s1.s1[n], settings |-> s1, at |-> "memo"]
      ELSE LET quick_start == find(s1.s2, n)
           IN  IF quick_start < 0
               THEN [ret |-> NotFound, settings |-> s1, at |-> "quick"]
               ELSE LET r == Scan(h, n, quick_start, TRUE)
                    IN  IF r = IndexError
                        THEN [ret |-> IndexError, settings |-> s1, at |-> "raise"]
                        ELSE [ret |-> r,
                              settings |-> [s1 EXCEPT !.s1 = MemoPut(s1.s1, n, r)],
                              at |-> "scan"]

(***************************************************************************)
(* load_products                                                           *)
(***************************************************************************)
\* one line of products.txt after lines 32-35: the normalized fields are
\* added; family_ only when the record has a family
LoadProduct(product) ==
  [product_name  |-> product.product_name,
   manufacturer_ |-> normalize(product.manufacturer),
   model_        |-> normalize(product.model),
   family_       |-> IF product.family # None THEN normalize(product.family) ELSE None]

load_products(lines) == [i \in DOMAIN lines |-> LoadProduct(lines[i])]

(***************************************************************************)
(* match_product                                                           *)
(***************************************************************************)
FOR == <<" ", "f", "o", "r", " ">>
POUR == <<" ", "p", "o", "u", "r", " ">>
FUER == <<" ", "f", "ü", "r", " ">>

\* line 134
AccessoryTitle(title) ==
  LET lower_title == Lowered(title)
  IN  \/ find(lower_title, FOR) > 0
      \/ find(lower_title, POUR) > 0
      \/ find(lower_title, FUER) > 0

\* lines 140-147 from product i on: the for loop with its two lists, the
\* cache threaded through the fuzzy_match calls in the order and with the
\* short-circuits of the source; raised when a fuzzy_match call raises
RECURSIVE ProductLoop(_, _, _, _, _, _)
ProductLoop(title, prods, i, all_hits, family_hits, s) ==
  IF i > Len(prods)
  THEN [raised |-> FALSE, all_hits |-> all_hits, family_hits |-> family_hits,
        settings |-> s]
  ELSE LET x  == prods[i]
           m1 == FuzzyMatch(title, x.manufacturer_, s)
           m2 == FuzzyMatch(title, x.model_, m1.settings)
           m3 == FuzzyMatch(title, x.family_, m2.settings)
           failed(st) == [raised |-> TRUE, all_hits |-> all_hits,
                          family_hits |-> family_hits, settings |-> st]
       IN  IF m1.ret = IndexError THEN failed(m1.settings)
           ELSE IF m1.ret < 0
                THEN ProductLoop(title, prods, i + 1, all_hits, family_hits, m1.settings)
           ELSE IF m2.ret = IndexError THEN failed(m2.settings)
           ELSE IF m2.ret < 0
                THEN ProductLoop(title, prods, i + 1, all_hits, family_hits, m2.settings)
           ELSE IF x.family_ = None
                THEN ProductLoop(title, prods, i + 1,
                                 Append(all_hits, x.product_name), family_hits,
                                 m2.settings)
           ELSE IF m3.ret = IndexError THEN failed(m3.settings)
           ELSE IF m3.ret < 0
                THEN ProductLoop(title, prods, i + 1,
                                 Append(all_hits, x.product_name), family_hits,
                                 m3.settings)
           ELSE ProductLoop(title, prods, i + 1,
                            Append(all_hits, x.product_name),
                            Append(family_hits, x.product_name), m3.settings)

\* lines 153-156
Prefer(family_hits, all_hits) ==
  IF Len(family_hits) > 0 THEN family_hits ELSE all_hits

\* match_product(listing, products) run on the cache s: the list returned,
\* or raised, and the cache the call leaves
MatchProduct(lst, prods, s) ==
  IF AccessoryTitle(lst.title)
  THEN [raised |-> FALSE, names |-> <<>>, settings |-> s]
  ELSE LET r == ProductLoop(lst.title, prods, 1, <<>>, <<>>, s)
       IN  [raised |-> r.raised,
            names |-> IF r.raised THEN <<>> ELSE Prefer(r.family_hits, r.all_hits),
            settings |-> r.settings]

(***************************************************************************)
(* match_listings                                                          *)
(***************************************************************************)
\* the characters in code point order, for the comparison of strings
CodeOrder == <<" ", "(", ")", "-", "/">> \o DIGITS \o UPPER \o LOWER \o <<"ü">>

Ord(c) == CHOOSE i \in DOMAIN CodeOrder : CodeOrder[i] = c

\* a < b for Python strings
RECURSIVE StrLess(_, _)
StrLess(a, b) ==
  IF b = <<>> THEN FALSE
  ELSE IF a = <<>> THEN TRUE
  ELSE IF Head(a) = Head(b) THEN StrLess(Tail(a), Tail(b))
  ELSE Ord(Head(a)) < Ord(Head(b))

\* longest_match as the first candidate
longest_first(names) == names[1]

\* max(product_names), line 183
longest_match(names) ==
  CHOOSE m \in Range(names) : \A o \in Range(names) : ~StrLess(m, o)

\* lines 179-188: the product a listing is resolved to, or None
Resolve(names) ==
  IF Len(names) > 0
  THEN LET longest == longest_match(names)
       IN  IF \A i \in DOMAIN names : find(longest, names[i]) = 0
           THEN longest
           ELSE IF Len(names) = 1 THEN names[1] ELSE None
  ELSE None

EmptyMapping == [k \in {} |-> <<>>]

\* lines 190-195
Record(product_to_listings, result, index) ==
  IF result # None
  THEN [k \in DOMAIN product_to_listings \cup {result} |->
          IF k = result
          THEN Append(IF k \in DOMAIN product_to_listings
                      THEN product_to_listings[k] ELSE <<>>, index)
          ELSE product_to_listings[k]]
  ELSE product_to_listings

\* NextIndex as index += 1
NextIndexOne(index, divisor) == index + 1

\* line 197
NextIndex(index, divisor) == index + divisor

\* lines 168-174: the listings whose line count is modulo, modulo divisor
RECURSIVE Shard(_, _, _, _)
Shard(lines, count, modulo, divisor) ==
  IF count >= Len(lines) THEN <<>>
  ELSE IF count % divisor = modulo
       THEN <<At(lines, count)>> \o Shard(lines, count + 1, modulo, divisor)
       ELSE Shard(lines, count + 1, modulo, divisor)

\* a process before match_listings runs in it
NewWorker ==
  [pc |-> "start", settings |-> FreshSettings, products |-> <<>>,
   listings |-> <<>>, pos |-> 0, index |-> 0, product_to_listings |-> EmptyMapping]

\* MergeResult with an assignment for the extend
MergeOverwrite(mr, result) ==
  [product_name \in DOMAIN mr \cup DOMAIN result |->
     IF product_name \in DOMAIN result
     THEN result[product_name]
     ELSE mr[product_name]]

\* lines 214-220 for one result: the lists are extended per product name
MergeResult(mr, result) ==
  [product_name \in DOMAIN mr \cup DOMAIN result |->
     IF product_name \in DOMAIN mr
     THEN IF product_name \in DOMAIN result
          THEN mr[product_name] \o result[product_name]
          ELSE mr[product_name]
     ELSE result[product_name]]

\* the results after result m is merged: the list of a name that result m
\* extends is the list of the first result that holds the name
Aliased(rs, m, mr) ==
  [i \in DOMAIN rs |->
     [product_name \in DOMAIN rs[i] |->
        IF /\ i < m
           /\ product_name \in DOMAIN rs[m]
           /\ \A j \in 1..(i - 1) : product_name \notin DOMAIN rs[j]
        THEN mr[product_name]
        ELSE rs[i][product_name]]]

(***************************************************************************)
(* Inputs.                                                                 *)
(***************************************************************************)
Seqs(S, n) == UNION {[1..k -> S] : k \in 0..n}

RECURSIVE Concat(_)
Concat(ws) == IF ws = <<>> THEN <<>> ELSE Head(ws) \o Concat(Tail(ws))

HayChars == {"a", "B", "1", "-", "/"}
NeedleChars == {"a", "b", "1"}
Haystacks == Seqs(HayChars, MaxHayLen)
Needles == Seqs(NeedleChars, MaxNeedleLen)

CacheHayChars == {"a", "1", " "}
CacheNeedleChars == {"a", "1"}
CacheHaystacks == Seqs(CacheHayChars, MaxCacheHayLen)
CacheNeedles == Seqs(CacheNeedleChars, MaxCacheNeedleLen)

\* titles are made of these pieces
Words == {<<" ", "F", "o", "r", " ">>, POUR, FUER, <<"P", " ">>, <<"O", " ">>,
          <<"W", "-", "1">>}
Titles == {Concat(ws) : ws \in Seqs(Words, MaxWords)}

\* lines of products.txt
ProductLines ==
  {[product_name |-> <<"W", "1">>, manufacturer |-> <<"P">>,
    model |-> <<"W", "1">>, family |-> <<"O">>],
   [product_name |-> <<"W">>, manufacturer |-> <<"P">>,
    model |-> <<"W">>, family |-> None],
   [product_name |-> <<"X">>, manufacturer |-> <<"P">>,
    model |-> <<"W", " ", "1">>, family |-> <<"X">>],
   [product_name |-> <<"D">>, manufacturer |-> <<"-">>,
    model |-> <<"W">>, family |-> None]}
Catalogs == {load_products(ls) : ls \in Seqs(ProductLines, MaxProducts)}

NameChars == {"W", "1"}
Names == Seqs(NameChars, MaxNameLen)
CandidateLists == Seqs(Names, MaxCandidates)

MainTitles == {<<"P", " ", "W", " ", "1">>, <<"P", " ", "W">>, <<"P">>}
MainCatalogs ==
  {load_products(ls) : ls \in
     {<<[product_name |-> <<"W">>, manufacturer |-> <<"P">>,
         model |-> <<"W">>, family |-> None],
        [product_name |-> <<"W", "1">>, manufacturer |-> <<"P">>,
         model |-> <<"W", "-", "1">>, family |-> None]>>,
      <<[product_name |-> <<"W", "1">>, manufacturer |-> <<"P">>,
         model |-> <<"W", "-", "1">>, family |-> None],
        [product_name |-> <<"D">>, manufacturer |-> <<"-">>,
         model |-> <<"W">>, family |-> None]>>}}

(***************************************************************************)
(* One call of fuzzy_match, and the same call again.                       *)
(***************************************************************************)
InitFuzzy ==
  /\ settings = FreshSettings
  /\ pc = "ready"
  /\ haystack \in Haystacks
  /\ needle \in Needles
  /\ ret = None
  /\ listing = None
  /\ products = None
  /\ product_names = None
  /\ num_processes = None
  /\ listings = None
  /\ worker = None
  /\ q = None
  /\ results = None
  /\ merged = None
  /\ merged_results = None

\* fuzzy_match(h, n) in the calling process
fuzzy_match(h, n) ==
  /\ LET r == FuzzyMatch(h, n, settings)
     IN  /\ ret' = r.ret
         /\ settings' = r.settings
         /\ pc' = r.at
  /\ haystack' = h
  /\ needle' = n
  /\ UNCHANGED <<listing, products, product_names, num_processes, listings,
                 worker, q, results, merged, merged_results>>

Call ==
  /\ pc = "ready"
  /\ fuzzy_match(haystack, needle)

Recall ==
  /\ pc \in {"scan", "quick", "raise"}
  /\ fuzzy_match(haystack, needle)

NextFuzzy == Call \/ Recall

SpecFuzzy == InitFuzzy /\ [][NextFuzzy]_vars

(***************************************************************************)
(* Any sequence of fuzzy_match calls on the shared cache.                  *)
(***************************************************************************)
InitCache ==
  /\ settings = FreshSettings
  /\ pc = "ready"
  /\ haystack = None
  /\ needle = None
  /\ ret = None
  /\ listing = None
  /\ products = None
  /\ product_names = None
  /\ num_processes = None
  /\ listings = None
  /\ worker = None
  /\ q = None
  /\ results = None
  /\ merged = None
  /\ merged_results = None

AnyCall == \E h \in CacheHaystacks, n \in CacheNeedles : fuzzy_match(h, n)

NextCache == AnyCall

SpecCache == InitCache /\ [][NextCache]_vars

(***************************************************************************)
(* One call of match_product.                                              *)
(***************************************************************************)
InitProduct ==
  /\ settings = FreshSettings
  /\ pc = "ready"
  /\ listing \in {[title |-> t] : t \in Titles}
  /\ products \in Catalogs
  /\ product_names = None
  /\ haystack = None
  /\ needle = None
  /\ ret = None
  /\ num_processes = None
  /\ listings = None
  /\ worker = None
  /\ q = None
  /\ results = None
  /\ merged = None
  /\ merged_results = None

match_product ==
  /\ pc = "ready"
  /\ LET r == MatchProduct(listing, products, settings)
     IN  /\ pc' = IF r.raised THEN "raised" ELSE "returned"
         /\ product_names' = IF r.raised THEN None ELSE r.names
         /\ settings' = r.settings
  /\ UNCHANGED <<haystack, needle, ret, listing, products, num_processes,
                 listings, worker, q, results, merged, merged_results>>

NextProduct == match_product

SpecProduct == InitProduct /\ [][NextProduct]_vars

(***************************************************************************)
(* match_listings and the merge of the main process.                       *)
(***************************************************************************)
Workers == 0..(num_processes - 1)

\* lines 165-176
Load(w) ==
  /\ worker[w].pc = "start"
  /\ worker' = [worker EXCEPT ![w] =
       [@ EXCEPT !.pc = "loop",
                 !.products = products,
                 !.listings = Shard(listings, 0, w, num_processes),
                 !.index = w]]
  /\ UNCHANGED <<settings, pc, haystack, needle, ret, listing, products,
                 product_names, num_processes, listings, q, results, merged,
                 merged_results>>

\* lines 177-197, one listing: match_product, the resolution, the record
MatchListing(w) ==
  /\ worker[w].pc = "loop"
  /\ worker[w].pos < Len(worker[w].listings)
  /\ LET me == worker[w]
         r  == MatchProduct(At(me.listings, me.pos), me.products, me.settings)
     IN  worker' = [worker EXCEPT ![w] =
           IF r.raised
           THEN [me EXCEPT !.pc = "raised", !.settings = r.settings]
           ELSE [me EXCEPT !.settings = r.settings,
                           !.product_to_listings =
                              Record(@, Resolve(r.names), me.index),
                           !.index = NextIndex(@, num_processes),
                           !.pos = @ + 1]]
  /\ UNCHANGED <<settings, pc, haystack, needle, ret, listing, products,
                 product_names, num_processes, listings, q, results, merged,
                 merged_results>>

\* line 199
Put(w) ==
  /\ worker[w].pc = "loop"
  /\ worker[w].pos = Len(worker[w].listings)
  /\ q' = Append(q, worker[w].product_to_listings)
  /\ worker' = [worker EXCEPT ![w].pc = "done"]
  /\ UNCHANGED <<settings, pc, haystack, needle, ret, listing, products,
                 product_names, num_processes, listings, results, merged,
                 merged_results>>

\* line 212, one q.get(): it blocks while the queue is empty
Get ==
  /\ pc = "get"
  /\ q # <<>>
  /\ results' = Append(results, Head(q))
  /\ q' = Tail(q)
  /\ pc' = IF Len(results) + 1 = num_processes THEN "merge" ELSE "get"
  /\ UNCHANGED <<settings, haystack, needle, ret, listing, products,
                 product_names, num_processes, listings, worker, merged,
                 merged_results>>

\* lines 215-220, one result.  Line 220 stores the result's own list in
\* merged_results, so a later extend (line 218) also lengthens that list in
\* the result it came from
Merge ==
  /\ pc = "merge"
  /\ merged_results' = MergeResult(merged_results, results[merged + 1])
  /\ results' = Aliased(results, merged + 1, merged_results')
  /\ merged' = merged + 1
  /\ pc' = IF merged + 1 = Len(results) THEN "done" ELSE "merge"
  /\ UNCHANGED <<settings, haystack, needle, ret, listing, products,
                 product_names, num_processes, listings, worker, q>>

InitMain ==
  /\ num_processes \in 1..MaxProcesses
  /\ listings \in Seqs({[title |-> t] : t \in MainTitles}, MaxListings)
  /\ products \in MainCatalogs
  /\ worker = [w \in Workers |-> NewWorker]
  /\ q = <<>>
  /\ results = <<>>
  /\ merged = 0
  /\ merged_results = EmptyMapping
  /\ pc = "get"
  /\ settings = None
  /\ haystack = None
  /\ needle = None
  /\ ret = None
  /\ listing = None
  /\ product_names = None

NextMain ==
  \/ \E w \in Workers : Load(w)
  \/ \E w \in Workers : MatchListing(w)
  \/ \E w \in Workers : Put(w)
  \/ Get
  \/ Merge

SpecMain == InitMain /\ [][NextMain]_vars

(***************************************************************************)
(* The resolution of one listing's candidates, lines 179-197.              *)
(***************************************************************************)
InitResolve ==
  /\ pc = "matched"
  /\ product_names \in CandidateLists
  /\ num_processes = 1
  /\ worker = [w \in Workers |-> [NewWorker EXCEPT !.pc = "loop"]]
  /\ settings = None
  /\ haystack = None
  /\ needle = None
  /\ ret = None
  /\ listing = None
  /\ products = None
  /\ listings = None
  /\ q = None
  /\ results = None
  /\ merged = None
  /\ merged_results = None

ResolveListing ==
  /\ pc = "matched"
  /\ worker' = [worker EXCEPT ![0] =
       [@ EXCEPT !.product_to_listings = Record(@, Resolve(product_names), worker[0].index),
                 !.index = NextIndex(@, num_processes),
                 !.pos = @ + 1]]
  /\ pc' = "resolved"
  /\ UNCHANGED <<settings, haystack, needle, ret, listing, products,
                 product_names, num_processes, listings, q, results, merged,
                 merged_results>>

NextResolve == ResolveListing

SpecResolve == InitResolve /\ [][NextResolve]_vars

(***************************************************************************)
(* The properties.                                                         *)
(***************************************************************************)
Delimiters == {" ", "-", "(", ")"}

Called == pc \in {"memo", "quick", "scan", "raise"}

\* i is a word-boundary start of h
WordStart(h, i) ==
  /\ i = 0 \/ At(h, i - 1) \in Delimiters
  /\ At(h, i) \notin Delimiters

\* the needle n is consumed from offset i of h, delimiters skipped and case
\* ignored, and the consumption ends at j, one past the last character taken
ConsumesTo(h, n, i, j) ==
  /\ i < j
  /\ j <= Len(h)
  /\ At(h, j - 1) \notin Delimiters
  /\ normalize(SubSeq(h, i + 1, j)) = n

\* the acceptance rule at the end offset j
AcceptanceRule(h, j) ==
  \/ j = Len(h)
  \/ At(h, j) \in Delimiters
  \/ isalpha(At(h, j)) # isalpha(At(h, j - 1))
  \/ isdigit(At(h, j)) # isdigit(At(h, j - 1))

\* C1: a position fuzzy_match returns for a non-empty needle is a word-boundary
\* start: it is 0 or the character before it is a delimiter.
C1_WordBoundaryStart ==
  (Called /\ needle # <<>> /\ ret >= 0)
    => (ret = 0 \/ At(haystack, ret - 1) \in Delimiters)

\* C2: when fuzzy_match returns a position for a non-empty needle, the needle
\* is consumed from that position and the consumption ends at an offset that
\* satisfies the acceptance rule.
C2_AcceptedEnd ==
  (Called /\ needle # <<>> /\ ret >= 0)
    => \E j \in 1..Len(haystack) :
         /\ ConsumesTo(haystack, needle, ret, j)
         /\ AcceptanceRule(haystack, j)

\* a match found by the scan that skips a delimiter and ends inside the
\* haystack at a change of character class
C2_Witness ==
  /\ pc = "scan"
  /\ ret >= 0
  /\ \E j \in 1..(Len(haystack) - 1) :
       /\ ConsumesTo(haystack, needle, ret, j)
       /\ j - ret > Len(needle)
       /\ At(haystack, j) \notin Delimiters

\* some word-boundary start of h admits an accepted consumption of n
HasAcceptedMatch(h, n) ==
  \E i \in 0..(Len(h) - 1) :
    /\ WordStart(h, i)
    /\ \E j \in (i + 1)..Len(h) : ConsumesTo(h, n, i, j) /\ AcceptanceRule(h, j)

\* C3: if some word-boundary start admits an accepted consumption of the
\* non-empty needle, fuzzy_match returns a position and not -1.
C3_Complete ==
  (Called /\ needle # <<>> /\ HasAcceptedMatch(haystack, needle)) => ret >= 0

\* a match after the offset the fast path found, with a delimiter skipped
\* inside it and an earlier word that failed
C3_Witness ==
  /\ pc = "scan"
  /\ needle # <<>>
  /\ HasAcceptedMatch(haystack, needle)
  /\ ret > find(normalize(haystack), needle)
  /\ \E j \in 1..Len(haystack) :
       ConsumesTo(haystack, needle, ret, j) /\ j - ret > Len(needle)
  /\ \E i \in 0..(ret - 1) : WordStart(haystack, i)

\* C4: every call on the shared cache returns what the call returns on a fresh
\* cache, and every memo entry is the fresh result for the current haystack.
C4_CacheTransparent ==
  Called =>
    /\ ret = FuzzyMatch(haystack, needle, FreshSettings).ret
    /\ settings.s0 = haystack
    /\ \A n \in DOMAIN settings.s1 :
         settings.s1[n] = FuzzyMatch(settings.s0, n, FreshSettings).ret

\* a call answered from the memo, with a position, the memo holding another
\* needle's different result as well
C4_Witness ==
  /\ pc = "memo"
  /\ ret >= 0
  /\ \E n \in DOMAIN settings.s1 : n # needle /\ settings.s1[n] # ret

\* the lowercased title holds " for ", " pour " or " für " at some offset
ForToken(title) ==
  \E k \in 0..Len(title) :
    \/ OccursAt(Lowered(title), FOR, k)
    \/ OccursAt(Lowered(title), POUR, k)
    \/ OccursAt(Lowered(title), FUER, k)

\* C5: for a title that holds " for ", " pour " or " für " at any offset,
\* offset 0 included, match_product returns the empty list.
C5_AccessoryRejected ==
  (pc \in {"returned", "raised"} /\ ForToken(listing.title))
    => (pc = "returned" /\ product_names = <<>>)

\* needle fuzzy-matches the title
Hit(title, n) == FuzzyMatch(title, n, FreshSettings).ret >= 0

InAll(title, x) == Hit(title, x.manufacturer_) /\ Hit(title, x.model_)

InFam(title, x) == InAll(title, x) /\ x.family_ # None /\ Hit(title, x.family_)

NamesOf(prods) == [i \in DOMAIN prods |-> prods[i].product_name]

\* ALL and FAM, as names in catalog order
AllNames(title, prods) == NamesOf(SelectSeq(prods, LAMBDA x : InAll(title, x)))

FamNames(title, prods) == NamesOf(SelectSeq(prods, LAMBDA x : InFam(title, x)))

\* FAM's names when FAM is not empty, ALL's otherwise
Preferred(title, prods) ==
  IF FamNames(title, prods) # <<>> THEN FamNames(title, prods)
  ELSE AllNames(title, prods)

\* C6: for a listing that is no accessory, match_product returns the names of
\* the products that matched manufacturer, model and family when there are
\* any, otherwise those that matched manufacturer and model, in catalog order.
C6_FamilyPreference ==
  (pc \in {"returned", "raised"} /\ ~ForToken(listing.title))
    => (pc = "returned" /\ product_names = Preferred(listing.title, products))

IsPrefix(a, b) == Len(a) <= Len(b) /\ SubSeq(b, 1, Len(a)) = a

Permuted(names) ==
  {[i \in DOMAIN names |-> names[p[i]]] : p \in Permutations(DOMAIN names)}

C8_MergeOrderIndependent ==
  pc = "done" =>
    /\ DOMAIN merged_results =
         UNION {DOMAIN worker[w].product_to_listings : w \in Workers}
    /\ \A name \in DOMAIN merged_results :
         Range(merged_results[name]) =
           UNION {Range(worker[w].product_to_listings[name]) :
                    w \in {v \in Workers : name \in DOMAIN worker[v].product_to_listings}}

\* a name whose merged indices start with one of the second worker and hold
\* one of the first worker too: the second worker's mapping was merged first
C8_Witness ==
  /\ pc = "done"
  /\ num_processes >= 2
  /\ \E name \in DOMAIN merged_results :
       /\ merged_results[name][1] % num_processes = 1
       /\ \E i \in DOMAIN merged_results[name] :
            merged_results[name][i] % num_processes = 0

\* C10: in the merged mapping no index occurs twice, every index k is a
\* position of the listing sequence that worker k mod N processed and recorded,
\* under a name match_product returns for that listing, and no name maps to
\* an empty sequence.
C10_MergedIndices ==
  pc \in {"merge", "done"} =>
    /\ \A name \in DOMAIN merged_results : merged_results[name] # <<>>
    /\ \A n1, n2 \in DOMAIN merged_results :
         \A i \in DOMAIN merged_results[n1], j \in DOMAIN merged_results[n2] :
           merged_results[n1][i] = merged_results[n2][j] => (n1 = n2 /\ i = j)
    /\ \A name \in DOMAIN merged_results :
         \A i \in DOMAIN merged_results[name] :
           LET k  == merged_results[name][i]
               me == worker[k % num_processes]
           IN  /\ k \in 0..(Len(listings) - 1)
               /\ k \div num_processes < me.pos
               /\ At(me.listings, k \div num_processes) = At(listings, k)
               /\ name \in DOMAIN me.product_to_listings
               /\ k \in Range(me.product_to_listings[name])
               /\ name \in Range(MatchProduct(At(listings, k), products,
                                              FreshSettings).names)

\* a finished merge with two names, one of them holding indices of two workers
C10_Witness ==
  /\ pc = "done"
  /\ num_processes >= 2
  /\ Cardinality(DOMAIN merged_results) >= 2
  /\ \E name \in DOMAIN merged_results :
       \E i, j \in DOMAIN merged_results[name] :
         merged_results[name][i] % num_processes
           # merged_results[name][j] % num_processes

\* C9: fuzzy_match returns -1 or an offset of the haystack, for every haystack
\* and every normalized needle, the empty ones included, and never fails.
C9_Total ==
  Called => (ret = NotFound \/ ret \in 0..(Len(haystack) - 1))

====
